---- MODULE Spec2Model ----
(***************************************************************************)
(* Timeseries algebra of gs_quant (gs_quant/timeseries/algebra.py): the    *)
(* elementwise operations add, subtract, multiply, divide and floordiv     *)
(* over two date-indexed series or scalars, the clamps floor and ceil,     *)
(* sqrt and filter_; and the window normalization of                       *)
(* gs_quant/timeseries/helper.py.                                          *)
(*                                                                         *)
(* A call is modelled as one step from pc = "idle" to pc = "done": the     *)
(* operands x and y are drawn in Init, the action applies the function and *)
(* records its locals (x_align, y_align), its return value (ret) and the   *)
(* operand objects as the caller finds them after the call (x, y).         *)
(*                                                                         *)
(* Spec       calls of the five binary operations on two operands          *)
(* SpecClamp  calls of floor and ceil on one series                        *)
(* SpecFilter calls of filter_ on one time series                          *)
(* SpecSqrt   calls of sqrt on a real number or a time series              *)
(* SpecWindow calls of normalize_window on a series                        *)
(* SpecRamp   calls of apply_ramp on a time series                         *)
(*                                                                         *)
(* The calendar cache of gs_quant/datetime/gscalendar.py and the query     *)
(* building of gs_quant/api/gs/backtests.py are modelled next to it:       *)
(* CALENDAR_CACHE is the class attribute GsCalendar.__CALENDAR_CACHE,      *)
(* instances the GsCalendar objects created so far, history the calls of   *)
(* get and reset made so far with what they returned, and requests the     *)
(* HTTP requests handed to the session.                                    *)
(*                                                                         *)
(* SpecCalendar  sequences of GsCalendar.get and GsCalendar.reset calls    *)
(* SpecBacktest  calls of GsBacktestApi.get_backtests and                  *)
(*               get_comparison_results                                    *)
(***************************************************************************)
EXTENDS Integers, Sequences, FiniteSets, TLC

VARIABLES x, y, pc, call, x_align, y_align, ret,
          CALENDAR_CACHE, instances, history, requests

vars == <<x, y, pc, call, x_align, y_align, ret,
          CALENDAR_CACHE, instances, history, requests>>

(***************************************************************************)
(* Bounds of the model.                                                    *)
(***************************************************************************)
MaxDate == 3     \* dates are 1..MaxDate
MaxObs == 3      \* the operands of a call hold at most MaxObs observations
MaxVal == 1      \* an observation is NaN or one of 0..MaxVal
MaxScalar == 2   \* a scalar is one of -MaxScalar..MaxScalar
MaxTuple == 2    \* a calendars tuple names at most MaxTuple calendars
MaxCalls == 3    \* a behaviour makes at most MaxCalls calls of get and reset

(***************************************************************************)
(* Values.  A value is a number n/d in lowest terms (d > 0), the           *)
(* missing-marker NaN, or a signed infinity.                               *)
(***************************************************************************)
Abs(i) == IF i < 0 THEN -i ELSE i

RECURSIVE GCD(_, _)
GCD(a, b) == IF b = 0 THEN a ELSE GCD(b, a % b)

Frac(n, d) ==
    LET s == IF d < 0 THEN -1 ELSE 1
        g == GCD(Abs(n), Abs(d))
    IN  [k |-> "num", n |-> (s * n) \div g, d |-> (s * d) \div g]

Num(i) == [k |-> "num", n |-> i, d |-> 1]
NaN == [k |-> "nan", n |-> 0, d |-> 1]
Inf(s) == [k |-> "inf", n |-> s, d |-> 1]

IsNaN(v) == v.k = "nan"
IsNum(v) == v.k = "num"
IsInf(v) == v.k = "inf"
Sign(i) == IF i > 0 THEN 1 ELSE IF i < 0 THEN -1 ELSE 0

\* IEEE comparison a > b: false as soon as one side is NaN.
VGreater(a, b) ==
    IF IsNaN(a) \/ IsNaN(b) THEN FALSE
    ELSE IF IsInf(a) THEN a.n = 1 /\ ~(IsInf(b) /\ b.n = 1)
    ELSE IF IsInf(b) THEN b.n = -1
    ELSE a.n * b.d > b.n * a.d

(***************************************************************************)
(* Elementwise arithmetic of pandas Series (IEEE semantics: NaN            *)
(* propagates, division by zero gives an infinity or NaN, never an error). *)
(***************************************************************************)
VAdd(a, b) ==
    IF IsNaN(a) \/ IsNaN(b) THEN NaN
    ELSE IF IsInf(a) /\ IsInf(b) THEN (IF a.n = b.n THEN a ELSE NaN)
    ELSE IF IsInf(a) THEN a
    ELSE IF IsInf(b) THEN b
    ELSE Frac(a.n * b.d + b.n * a.d, a.d * b.d)

VNeg(a) == IF IsNaN(a) THEN NaN ELSE [a EXCEPT !.n = -a.n]

VSub(a, b) == VAdd(a, VNeg(b))

VMul(a, b) ==
    IF IsNaN(a) \/ IsNaN(b) THEN NaN
    ELSE IF IsInf(a) \/ IsInf(b)
         THEN (IF Sign(a.n) * Sign(b.n) = 0 THEN NaN ELSE Inf(Sign(a.n) * Sign(b.n)))
    ELSE Frac(a.n * b.n, a.d * b.d)

VDiv(a, b) ==
    IF IsNaN(a) \/ IsNaN(b) THEN NaN
    ELSE IF IsInf(a) THEN (IF IsInf(b) THEN NaN
                           ELSE Inf(a.n * (IF b.n < 0 THEN -1 ELSE 1)))
    ELSE IF IsInf(b) THEN Num(0)
    ELSE IF b.n = 0 THEN (IF a.n = 0 THEN NaN ELSE Inf(Sign(a.n)))
    ELSE Frac(a.n * b.d, a.d * b.n)

\* floor of the number n/d (d > 0); \div rounds towards minus infinity
FloorOf(v) == Num(v.n \div v.d)

VFloorDiv(a, b) ==
    LET q == VDiv(a, b)
    IN  IF IsNum(q) THEN FloorOf(q) ELSE q

(***************************************************************************)
(* Python scalar arithmetic on Real operands: as above on numbers, except  *)
(* that a zero divisor raises ZeroDivisionError.                           *)
(***************************************************************************)
Scalar(v) == [kind |-> "scalar", index |-> <<>>, values |-> <<v>>, err |-> ""]
Raise(e) == [kind |-> "error", index |-> <<>>, values |-> <<>>, err |-> e]
None == [kind |-> "none", index |-> <<>>, values |-> <<>>, err |-> ""]
MkSeries(idx, vals) == [kind |-> "series", index |-> idx, values |-> vals, err |-> ""]

IsReal(o) == o.kind = "scalar"
IsSeries(o) == o.kind = "series"

PyAdd(a, b) == Scalar(VAdd(a, b))
PySub(a, b) == Scalar(VSub(a, b))
PyMul(a, b) == Scalar(VMul(a, b))
PyTrueDiv(a, b) ==
    IF IsNum(b) /\ b.n = 0 THEN Raise("ZeroDivisionError") ELSE Scalar(VDiv(a, b))
PyFloorDiv(a, b) ==
    IF IsNum(b) /\ b.n = 0 THEN Raise("ZeroDivisionError") ELSE Scalar(VFloorDiv(a, b))

\* Python's builtin max(a, b) and min(a, b): the first argument is kept
\* unless the second compares strictly greater (smaller).
PyMax(a, b) == IF VGreater(b, a) THEN b ELSE a
PyMin(a, b) == IF VGreater(a, b) THEN b ELSE a

(***************************************************************************)
(* Series: a strictly increasing date index with one value per date.       *)
(***************************************************************************)
Dates == 1..MaxDate
Methods == {"INTERSECT", "NAN", "ZERO", "STEP"}

IsStrictlyIncreasing(idx) == \A i \in 1..(Len(idx) - 1) : idx[i] < idx[i + 1]

\* pandas Index.is_monotonic_increasing: each element is >= the previous one
is_monotonic_increasing(idx) == \A i \in 1..(Len(idx) - 1) : idx[i] <= idx[i + 1]

DateSet(idx) == {idx[i] : i \in 1..Len(idx)}
DatesOf(s) == DateSet(s.index)
Pos(idx, d) == CHOOSE i \in 1..Len(idx) : idx[i] = d
At(s, d) == s.values[Pos(s.index, d)]

InputValues == {NaN} \cup {Num(i) : i \in 0..MaxVal}
AnyIndexes == UNION {[1..n -> Dates] : n \in 0..MaxObs}
InputIndexes == {idx \in AnyIndexes : IsStrictlyIncreasing(idx)}
SeriesOver(indexes) ==
    UNION {{MkSeries(idx, v) : v \in [1..Len(idx) -> InputValues]} : idx \in indexes}
InputSeries == SeriesOver(InputIndexes)
InputScalars == {Scalar(Num(i)) : i \in (-MaxScalar)..MaxScalar}
Operands == InputSeries \cup InputScalars
Obs(o) == Len(o.index)

(***************************************************************************)
(* Index joins of two strictly increasing indexes (merge of sorted runs).  *)
(***************************************************************************)
RECURSIVE OuterJoin(_, _)
OuterJoin(a, b) ==
    IF a = <<>> THEN b
    ELSE IF b = <<>> THEN a
    ELSE IF Head(a) < Head(b) THEN <<Head(a)>> \o OuterJoin(Tail(a), b)
    ELSE IF Head(b) < Head(a) THEN <<Head(b)>> \o OuterJoin(a, Tail(b))
    ELSE <<Head(a)>> \o OuterJoin(Tail(a), Tail(b))

RECURSIVE InnerJoin(_, _)
InnerJoin(a, b) ==
    IF a = <<>> \/ b = <<>> THEN <<>>
    ELSE IF Head(a) < Head(b) THEN InnerJoin(Tail(a), b)
    ELSE IF Head(b) < Head(a) THEN InnerJoin(a, Tail(b))
    ELSE <<Head(a)>> \o InnerJoin(Tail(a), Tail(b))

\* s re-indexed on idx: its own value where it has the date, fill elsewhere
Reindex(s, idx, fill) ==
    MkSeries(idx, [i \in 1..Len(idx) |->
                     IF idx[i] \in DatesOf(s) THEN At(s, idx[i]) ELSE fill])

\* s re-indexed on idx, a date s lacks taking the value of the entry before it
\* (carried forward), the missing-marker when there is none
ReindexStep(s, idx) ==
    LET f[i \in 1..Len(idx)] ==
            IF idx[i] \in DatesOf(s) THEN At(s, idx[i])
            ELSE IF i = 1 THEN NaN
            ELSE f[i - 1]
    IN  MkSeries(idx, f)

\* a scalar as a constant series over idx
Constant(v, idx) == MkSeries(idx, [i \in 1..Len(idx) |-> v])

(***************************************************************************)
(* align(x, y, method): the aligned pair <<x_align, y_align>>.             *)
(***************************************************************************)
align(px, py, method) ==
    IF IsReal(px) /\ IsReal(py) THEN <<px, py>>
    ELSE IF IsReal(px) THEN <<Constant(px.values[1], py.index), py>>
    ELSE IF IsReal(py) THEN <<px, Constant(py.values[1], px.index)>>
    ELSE IF method = "INTERSECT"
         THEN LET idx == InnerJoin(px.index, py.index)
              IN  <<Reindex(px, idx, NaN), Reindex(py, idx, NaN)>>
    ELSE LET idx == OuterJoin(px.index, py.index)
         IN  IF method = "NAN" THEN <<Reindex(px, idx, NaN), Reindex(py, idx, NaN)>>
             ELSE IF method = "ZERO"
                  THEN <<Reindex(px, idx, Num(0)), Reindex(py, idx, Num(0))>>
             ELSE <<ReindexStep(px, idx), ReindexStep(py, idx)>>

(***************************************************************************)
(* Series.add / subtract / multiply / divide / floordiv of pandas: the     *)
(* operator applied date by date over the union of the two indexes, a      *)
(* date one side lacks counting as NaN there.                              *)
(***************************************************************************)
OuterPair(a, b) ==
    IF a.index = b.index
    THEN [index |-> a.index, left |-> a.values, right |-> b.values]
    ELSE LET idx == OuterJoin(a.index, b.index)
         IN  [index |-> idx,
              left |-> Reindex(a, idx, NaN).values,
              right |-> Reindex(b, idx, NaN).values]

Series_add(a, b) ==
    LET p == OuterPair(a, b)
    IN  MkSeries(p.index, [i \in 1..Len(p.index) |-> VAdd(p.left[i], p.right[i])])

Series_subtract(a, b) ==
    LET p == OuterPair(a, b)
    IN  MkSeries(p.index, [i \in 1..Len(p.index) |-> VSub(p.left[i], p.right[i])])

Series_multiply(a, b) ==
    LET p == OuterPair(a, b)
    IN  MkSeries(p.index, [i \in 1..Len(p.index) |-> VMul(p.left[i], p.right[i])])

Series_divide(a, b) ==
    LET p == OuterPair(a, b)
    IN  MkSeries(p.index, [i \in 1..Len(p.index) |-> VDiv(p.left[i], p.right[i])])

Series_floordiv(a, b) ==
    LET p == OuterPair(a, b)
    IN  MkSeries(p.index, [i \in 1..Len(p.index) |-> VFloorDiv(p.left[i], p.right[i])])

\* Series.apply(lambda y: max(y, value)) and (lambda y: min(y, value)): the
\* function applied to every value, index kept
Series_apply_max(s, value) ==
    MkSeries(s.index, [i \in 1..Len(s.index) |-> PyMax(s.values[i], value)])

Series_apply_min(s, value) ==
    MkSeries(s.index, [i \in 1..Len(s.index) |-> PyMin(s.values[i], value)])

\* the entries of s whose position is marked in mask, in the order of s
RECURSIVE Take(_, _)
Take(s, mask) ==
    IF Len(s.index) = 0 THEN MkSeries(<<>>, <<>>)
    ELSE LET rest == Take(MkSeries(Tail(s.index), Tail(s.values)), Tail(mask))
         IN  IF Head(mask)
             THEN MkSeries(<<Head(s.index)>> \o rest.index,
                           <<Head(s.values)>> \o rest.values)
             ELSE rest

\* the members of the enum FilterOperator
FilterOperator == {"LESS", "GREATER", "L_EQUALS", "G_EQUALS", "EQUALS", "N_EQUALS"}

\* LESS compared with <= instead of <
Compare_less_inclusive(a, operator, b) ==
    CASE operator = "EQUALS" -> ~IsNaN(a) /\ ~IsNaN(b) /\ a = b
      [] operator = "GREATER" -> VGreater(a, b)
      [] operator = "LESS" -> ~IsNaN(a) /\ ~IsNaN(b) /\ ~VGreater(a, b)
      [] operator = "L_EQUALS" -> ~IsNaN(a) /\ ~IsNaN(b) /\ ~VGreater(a, b)
      [] operator = "G_EQUALS" -> ~IsNaN(a) /\ ~IsNaN(b) /\ ~VGreater(b, a)
      [] operator = "N_EQUALS" -> ~(~IsNaN(a) /\ ~IsNaN(b) /\ a = b)

\* x == value, x > value, x < value, x <= value, x >= value, x != value on
\* one element (IEEE: with a NaN every comparison but != is false)
Compare(a, operator, b) ==
    CASE operator = "EQUALS" -> ~IsNaN(a) /\ ~IsNaN(b) /\ a = b
      [] operator = "GREATER" -> VGreater(a, b)
      [] operator = "LESS" -> VGreater(b, a)
      [] operator = "L_EQUALS" -> ~IsNaN(a) /\ ~IsNaN(b) /\ ~VGreater(a, b)
      [] operator = "G_EQUALS" -> ~IsNaN(a) /\ ~IsNaN(b) /\ ~VGreater(b, a)
      [] operator = "N_EQUALS" -> ~(~IsNaN(a) /\ ~IsNaN(b) /\ a = b)

\* the boolean series x <operator> value, as the sequence of its values
Series_compare(s, operator, value) ==
    [i \in 1..Len(s.index) |-> Compare(s.values[i], operator, value)]

\* Series.drop(labels): every entry whose label is among labels is dropped
Series_drop(s, labels) ==
    Take(s, [i \in 1..Len(s.index) |-> s.index[i] \notin DateSet(labels)])

\* dropna that drops nothing
dropna_keeps_all(s) == s

\* Series.dropna(): the entries holding NaN are dropped
dropna(s) == Take(s, [i \in 1..Len(s.index) |-> ~IsNaN(s.values[i])])

(***************************************************************************)
(* The functions of algebra.py.  Each yields its return value (ret), its   *)
(* locals (x_align, y_align) and the operand objects after the call.       *)
(***************************************************************************)
\* the default documented by subtract's docstring ("default: intersect")
DefaultMethod_intersect == "INTERSECT"

DefaultMethod == "STEP"

Outcome(px, py, xa, ya, r) ==
    [x |-> px, y |-> py, x_align |-> xa, y_align |-> ya, ret |-> r]

\* add calling align without handing its method on
add_ignores_method(px, py, method) ==
    IF IsReal(px) /\ IsReal(py)
    THEN Outcome(px, py, None, None, PyAdd(px.values[1], py.values[1]))
    ELSE LET a == align(px, py, DefaultMethod)
         IN  Outcome(px, py, a[1], a[2], Series_add(a[1], a[2]))

\* add re-aligning its operands in place
add_inplace(px, py, method) ==
    IF IsReal(px) /\ IsReal(py)
    THEN Outcome(px, py, None, None, PyAdd(px.values[1], py.values[1]))
    ELSE LET a == align(px, py, method)
         IN  Outcome(a[1], a[2], a[1], a[2], Series_add(a[1], a[2]))

add(px, py, method) ==
    IF IsReal(px) /\ IsReal(py)
    THEN Outcome(px, py, None, None, PyAdd(px.values[1], py.values[1]))
    ELSE LET a == align(px, py, method)
         IN  Outcome(px, py, a[1], a[2], Series_add(a[1], a[2]))

\* subtract as its docstring has it: the union of dates, zero where absent
subtract_zero_fill(px, py, method) ==
    IF IsReal(px) /\ IsReal(py)
    THEN Outcome(px, py, None, None, PySub(px.values[1], py.values[1]))
    ELSE LET a == align(px, py, IF method = "STEP" THEN "ZERO" ELSE method)
         IN  Outcome(px, py, a[1], a[2], Series_subtract(a[1], a[2]))

\* subtract with its operands exchanged
subtract_swapped(px, py, method) ==
    IF IsReal(px) /\ IsReal(py)
    THEN Outcome(px, py, None, None, PySub(px.values[1], py.values[1]))
    ELSE LET a == align(px, py, method)
         IN  Outcome(px, py, a[1], a[2], Series_subtract(a[2], a[1]))

subtract(px, py, method) ==
    IF IsReal(px) /\ IsReal(py)
    THEN Outcome(px, py, None, None, PySub(px.values[1], py.values[1]))
    ELSE LET a == align(px, py, method)
         IN  Outcome(px, py, a[1], a[2], Series_subtract(a[1], a[2]))

\* multiply calling align without handing its method on
multiply_ignores_method(px, py, method) ==
    IF IsReal(px) /\ IsReal(py)
    THEN Outcome(px, py, None, None, PyMul(px.values[1], py.values[1]))
    ELSE LET a == align(px, py, DefaultMethod)
         IN  Outcome(px, py, a[1], a[2], Series_multiply(a[1], a[2]))

multiply(px, py, method) ==
    IF IsReal(px) /\ IsReal(py)
    THEN Outcome(px, py, None, None, PyMul(px.values[1], py.values[1]))
    ELSE LET a == align(px, py, method)
         IN  Outcome(px, py, a[1], a[2], Series_multiply(a[1], a[2]))

\* divide with the aligned operands exchanged
divide_swapped(px, py, method) ==
    IF IsReal(px) /\ IsReal(py)
    THEN Outcome(px, py, None, None, PyTrueDiv(px.values[1], py.values[1]))
    ELSE LET a == align(px, py, method)
         IN  Outcome(px, py, a[1], a[2], Series_divide(a[2], a[1]))

divide(px, py, method) ==
    IF IsReal(px) /\ IsReal(py)
    THEN Outcome(px, py, None, None, PyTrueDiv(px.values[1], py.values[1]))
    ELSE LET a == align(px, py, method)
         IN  Outcome(px, py, a[1], a[2], Series_divide(a[1], a[2]))

\* floordiv whose scalar branch divides with / instead of //
floordiv_true(px, py, method) ==
    IF IsReal(px) /\ IsReal(py)
    THEN Outcome(px, py, None, None, PyTrueDiv(px.values[1], py.values[1]))
    ELSE LET a == align(px, py, method)
         IN  Outcome(px, py, a[1], a[2], Series_floordiv(a[1], a[2]))

floordiv(px, py, method) ==
    IF IsReal(px) /\ IsReal(py)
    THEN Outcome(px, py, None, None, PyFloorDiv(px.values[1], py.values[1]))
    ELSE LET a == align(px, py, method)
         IN  Outcome(px, py, a[1], a[2], Series_floordiv(a[1], a[2]))

\* floor with its assertion left out
floor_unchecked(px, value) ==
    Outcome(px, None, None, None, Series_apply_max(px, value))

floor(px, value) ==
    IF ~is_monotonic_increasing(px.index)
    THEN Outcome(px, None, None, None, Raise("AssertionError"))
    ELSE Outcome(px, None, None, None, Series_apply_max(px, value))

\* ceil copied from floor with max left in place
ceil_with_max(px, value) ==
    IF ~is_monotonic_increasing(px.index)
    THEN Outcome(px, None, None, None, Raise("AssertionError"))
    ELSE Outcome(px, None, None, None, Series_apply_max(px, value))

ceil(px, value) ==
    IF ~is_monotonic_increasing(px.index)
    THEN Outcome(px, None, None, None, Raise("AssertionError"))
    ELSE Outcome(px, None, None, None, Series_apply_min(px, value))

\* Python numbers that carry their type: an int or a float
PyInt(i) == [kind |-> "int", index |-> <<>>, values |-> <<Num(i)>>, err |-> ""]
PyFloat(v) == [kind |-> "float", index |-> <<>>, values |-> <<v>>, err |-> ""]

\* The square root of the number n/d >= 0 as a float: the exact root when
\* n and d are perfect squares, otherwise the irrational root of n/d, kept
\* symbolically (at these magnitudes the nearest double is not an integer).
IsSquare(n) == \E r \in 0..n : r * r = n
ISqrt(n) == CHOOSE r \in 0..n : r * r = n
Root(v) ==
    IF IsSquare(v.n) /\ IsSquare(v.d)
    THEN Frac(ISqrt(v.n), ISqrt(v.d))
    ELSE [k |-> "root", n |-> v.n, d |-> v.d]

\* round(result) of a float >= 0: the nearest int, a tie going to the even one
round(v) ==
    IF v.k = "root"
    THEN CHOOSE r \in 0..(v.n + 1) :
            /\ r = 0 \/ (2 * r - 1) * (2 * r - 1) * v.d < 4 * v.n
            /\ 4 * v.n < (2 * r + 1) * (2 * r + 1) * v.d
    ELSE LET f == v.n \div v.d
             twice == 2 * (v.n - f * v.d)
         IN  IF twice < v.d THEN f
             ELSE IF twice > v.d THEN f + 1
             ELSE IF f % 2 = 0 THEN f ELSE f + 1

\* np.sqrt on one element: NaN for NaN and for a negative number
np_sqrt(v) == IF IsNum(v) /\ v.n >= 0 THEN Root(v) ELSE NaN

\* sqrt handing back math.sqrt's float as it is
sqrt_float(px) ==
    IF IsSeries(px)
    THEN Outcome(px, None, None, None,
                 MkSeries(px.index, [i \in 1..Len(px.index) |-> np_sqrt(px.values[i])]))
    ELSE IF px.values[1].n < 0
    THEN Outcome(px, None, None, None, Raise("ValueError"))
    ELSE LET result == Root(px.values[1])
         IN  Outcome(px, None, None, None, PyFloat(result))

sqrt(px) ==
    IF IsSeries(px)
    THEN Outcome(px, None, None, None,
                 MkSeries(px.index, [i \in 1..Len(px.index) |-> np_sqrt(px.values[i])]))
    ELSE IF px.values[1].n < 0
    THEN Outcome(px, None, None, None, Raise("ValueError"))
    ELSE LET result == Root(px.values[1])
         IN  Outcome(px, None, None, None,
                     IF Num(round(result)) = result
                     THEN PyInt(round(result))
                     ELSE PyFloat(result))

\* an argument left at its default None
NoValue == [k |-> "none", n |-> 0, d |-> 1]
NoOperator == "None"

\* filter_ taking a value without an operator as "remove nothing"
filter_lenient(px, operator, value) ==
    IF value = NoValue /\ operator = NoOperator
    THEN Outcome(px, None, None, None, dropna(px))
    ELSE IF value = NoValue
    THEN Outcome(px, None, None, None, Raise("MqValueError"))
    ELSE IF operator \in FilterOperator
    THEN LET remove == Series_compare(px, operator, value)
         IN  Outcome(px, None, None, None, Series_drop(px, Take(px, remove).index))
    ELSE Outcome(px, None, None, None, px)

filter_(px, operator, value) ==
    IF value = NoValue /\ operator = NoOperator
    THEN Outcome(px, None, None, None, dropna(px))
    ELSE IF value = NoValue
    THEN Outcome(px, None, None, None, Raise("MqValueError"))
    ELSE IF operator \in FilterOperator
    THEN LET remove == Series_compare(px, operator, value)
         IN  Outcome(px, None, None, None, Series_drop(px, Take(px, remove).index))
    ELSE Outcome(px, None, None, None, Raise("MqValueError"))

(***************************************************************************)
(* Window normalization (gs_quant/timeseries/helper.py).  A Window is a    *)
(* pair (w, r) of a size and a ramp, each an int or None.                  *)
(***************************************************************************)
Unset == [set |-> FALSE, v |-> 0]
Given(i) == [set |-> TRUE, v |-> i]
Window(w, r) == [kind |-> "window", w |-> w, r |-> r]

\* the window argument when it is None and when it is the int n
NoWindow == [kind |-> "none", w |-> Unset, r |-> Unset]
IntWindow(n) == [kind |-> "int", w |-> Given(n), r |-> Unset]

\* no window given, and the default size ignored
WindowFromNone_ignores_default(length, default_window) ==
    Window(Given(length), Given(0))

\* no window given: the default size if there is one, else the length of the
\* series, and no ramp
WindowFromNone(length, default_window) ==
    Window(Given(IF default_window.set THEN default_window.v ELSE length), Given(0))

\* an int taken as a size only
WindowFromInt_no_ramp(n) == Window(Given(n), Given(0))

\* an int is both the size and the ramp
WindowFromInt(n) == Window(Given(n), Given(n))

\* a size left unset counted as 0
SizeWhenUnset_zero(length) == 0

\* a size left unset is the length of the series
SizeWhenUnset(length) == length

\* a ramp left unset read as no ramp
RampWhenUnset_zero(size) == 0

\* Window(2, None) is normalised to w = 2, r = 2
RampWhenUnset(size) == size

\* only the size checked
check_window_size_only(length, window) == window.w.v # 0

\* a window is accepted unless its size is 0 or its ramp exceeds the length
\* of the series
check_window(length, window) == window.w.v # 0 /\ window.r.v <= length

normalize_window(px, window, default_window) ==
    LET length == Len(px.index)
        size == IF window.w.set THEN window.w.v ELSE SizeWhenUnset(length)
        ramp == IF window.r.set THEN window.r.v ELSE RampWhenUnset(size)
        w == IF window.kind = "none" THEN WindowFromNone(length, default_window)
             ELSE IF window.kind = "int" THEN WindowFromInt(window.w.v)
             ELSE Window(Given(size), Given(ramp))
    IN  Outcome(px, None, None, None,
                IF check_window(length, w) THEN w ELSE Raise("ValueError"))

\* apply_ramp's check letting a negative size through
check_ramp_size_zero_only(length, window) ==
    window.w.v # 0 /\ window.r.v >= 0 /\ window.r.v <= length

\* apply_ramp accepts a window unless its size is <= 0, its ramp is < 0 or
\* its ramp exceeds the length of the series
check_ramp(length, window) ==
    window.w.v > 0 /\ window.r.v >= 0 /\ window.r.v <= length

\* apply_ramp dropping as many entries as the size of the window
apply_ramp_drops_size(px, window) ==
    LET length == Len(px.index)
    IN  Outcome(px, None, None, None,
                IF ~check_ramp(length, window) THEN Raise("ValueError")
                ELSE IF window.w.v > length THEN MkSeries(<<>>, <<>>)
                ELSE MkSeries(SubSeq(px.index, window.w.v + 1, length),
                              SubSeq(px.values, window.w.v + 1, length)))

\* apply_ramp without the case of a window longer than the series
apply_ramp_no_empty(px, window) ==
    LET length == Len(px.index)
    IN  Outcome(px, None, None, None,
                IF ~check_ramp(length, window) THEN Raise("ValueError")
                ELSE MkSeries(SubSeq(px.index, window.r.v + 1, length),
                              SubSeq(px.values, window.r.v + 1, length)))

\* an invalid window fails; a window longer than the series gives the empty
\* series; otherwise the first window.r entries are dropped
apply_ramp(px, window) ==
    LET length == Len(px.index)
    IN  Outcome(px, None, None, None,
                IF ~check_ramp(length, window) THEN Raise("ValueError")
                ELSE IF window.w.v > length THEN MkSeries(<<>>, <<>>)
                ELSE MkSeries(SubSeq(px.index, window.r.v + 1, length),
                              SubSeq(px.values, window.r.v + 1, length)))

(***************************************************************************)
(* GsCalendar (gs_quant/datetime/gscalendar.py).  A calendars argument is  *)
(* a string or a tuple of strings; a GsCalendar object is known by its     *)
(* place in instances, which holds its field __calendars.                  *)
(***************************************************************************)
Str(s) == [kind |-> "str", s |-> s, t |-> <<>>]
Tuple(t) == [kind |-> "tuple", s |-> "", t |-> t]

\* if isinstance(calendars, str): calendars = (calendars,)
AsTuple(calendars) == IF calendars.kind = "str" THEN <<calendars.s>> ELSE calendars.t

\* the class attribute as a dict and as a set; items are the (key, value) pairs
Dict(items) == [kind |-> "dict", items |-> items]
EmptySet == [kind |-> "set", items |-> {}]
Keys(cache) == {e.key : e \in cache.items}
Lookup(cache, key) == (CHOOSE e \in cache.items : e.key = key).value

\* the object GsCalendar(calendars) and a reference to the i-th object
GsCalendar(calendars) == [calendars |-> AsTuple(calendars)]
Ref(i) == [kind |-> "GsCalendar", id |-> i]

\* get storing the new object whether or not the key is cached
get_replaces(cache, objects, calendars) ==
    LET key == AsTuple(calendars)
        new == Len(objects) + 1
    IN  IF cache.kind # "dict"
        THEN [cache |-> cache, instances |-> objects, ret |-> Raise("AttributeError")]
        ELSE [cache |-> Dict({e \in cache.items : e.key # key}
                                \cup {[key |-> key, value |-> new]}),
              instances |-> Append(objects, GsCalendar(calendars)),
              ret |-> Ref(new)]

\* GsCalendar.get: __CALENDAR_CACHE.setdefault(calendars, GsCalendar(calendars));
\* a set has no setdefault, which is found out before the object is created
get(cache, objects, calendars) ==
    LET key == AsTuple(calendars)
        new == Len(objects) + 1
    IN  IF cache.kind # "dict"
        THEN [cache |-> cache, instances |-> objects, ret |-> Raise("AttributeError")]
        ELSE IF key \in Keys(cache)
        THEN [cache |-> cache,
              instances |-> Append(objects, GsCalendar(calendars)),
              ret |-> Ref(Lookup(cache, key))]
        ELSE [cache |-> Dict(cache.items \cup {[key |-> key, value |-> new]}),
              instances |-> Append(objects, GsCalendar(calendars)),
              ret |-> Ref(new)]

\* GsCalendar.reset: __CALENDAR_CACHE = set()
reset(cache, objects) == [cache |-> EmptySet, instances |-> objects, ret |-> None]

\* GsCalendar.calendars of the object behind a reference
calendars_of(objects, ref) == objects[ref.id].calendars

(***************************************************************************)
(* GsBacktestApi (gs_quant/api/gs/backtests.py).  An argument is None or   *)
(* a value; a value is a text or a date.                                   *)
(***************************************************************************)
PyNone == [set |-> FALSE, text |-> "", date |-> 0]
Text(s) == [set |-> TRUE, text |-> s, date |-> 0]
Date(d) == [set |-> TRUE, text |-> "", date |-> d]

\* date.isoformat(): the text of a date; None has no such method
isoformat(v) == [set |-> TRUE, text |-> "isoformat", date |-> v.date]

Item(k, v) == [k |-> k, v |-> v]
IsNotNone(item) == item.v.set

\* urlencode(dict(filter(lambda item: item[1] is not None, items))): the
\* items whose value is not None, in the order of the dict
query_string(items) == SelectSeq(items, IsNotNone)

\* GsSession.current._get(path?query) and what the server answers
GET(path, query) == [method |-> "GET", path |-> path, query |-> query]
Response == [kind |-> "response", index |-> <<>>, values |-> <<>>, err |-> ""]

get_backtests(args) ==
    LET items == <<Item("id", args.backtest_id), Item("ownerId", args.owner_id),
                   Item("name", args.name), Item("mqSymbol", args.mq_symbol),
                   Item("limit", args.limit)>>
    IN  [requests |-> <<GET("/backtests", query_string(items))>>, ret |-> Response]

\* start_date.isoformat() and end_date.isoformat() are evaluated while the
\* dict is built, before anything is filtered
get_comparison_results(args) ==
    IF ~args.start_date.set \/ ~args.end_date.set
    THEN [requests |-> <<>>, ret |-> Raise("AttributeError")]
    ELSE LET items == <<Item("id", args.backtest_id),
                        Item("comparisonIds", args.comparison_id),
                        Item("ownerId", args.owner_id), Item("name", args.name),
                        Item("mqSymbol", args.mq_symbol), Item("limit", args.limit),
                        Item("startDate", isoformat(args.start_date)),
                        Item("endDate", isoformat(args.end_date))>>
         IN  [requests |-> <<GET("/backtests/results", query_string(items))>>,
              ret |-> Response]

(***************************************************************************)
(* The state machine: operands drawn in Init, one call per behaviour.      *)
(***************************************************************************)
MethodArgs == Methods \cup {"omitted"}
Effective(m) == IF m = "omitted" THEN DefaultMethod ELSE m
NoCall == [fn |-> "none", method |-> "omitted", value |-> NaN]

\* __CALENDAR_CACHE = {} and no GsCalendar object when the class is created
NoCalendars ==
    /\ CALENDAR_CACHE = Dict({})
    /\ instances = <<>>
    /\ history = <<>>

\* nothing sent to the session yet
NoRequests == requests = <<>>

Init ==
    /\ x \in Operands
    /\ y \in Operands
    /\ Obs(x) + Obs(y) <= MaxObs
    /\ pc = "idle"
    /\ call = NoCall
    /\ x_align = None
    /\ y_align = None
    /\ ret = None
    /\ NoCalendars
    /\ NoRequests

Return(c, o) ==
    /\ pc = "idle"
    /\ pc' = "done"
    /\ call' = c
    /\ x' = o.x
    /\ y' = o.y
    /\ x_align' = o.x_align
    /\ y_align' = o.y_align
    /\ ret' = o.ret
    /\ UNCHANGED <<CALENDAR_CACHE, instances, history, requests>>

Add ==
    \E m \in MethodArgs :
        Return([fn |-> "add", method |-> m, value |-> NaN], add(x, y, Effective(m)))

Subtract ==
    \E m \in MethodArgs :
        Return([fn |-> "subtract", method |-> m, value |-> NaN],
               subtract(x, y, Effective(m)))

Multiply ==
    \E m \in MethodArgs :
        Return([fn |-> "multiply", method |-> m, value |-> NaN],
               multiply(x, y, Effective(m)))

Divide ==
    \E m \in MethodArgs :
        Return([fn |-> "divide", method |-> m, value |-> NaN],
               divide(x, y, Effective(m)))

Floordiv ==
    \E m \in MethodArgs :
        Return([fn |-> "floordiv", method |-> m, value |-> NaN],
               floordiv(x, y, Effective(m)))

\* subtract(add(a, b, m), b, m): the sum is a temporary, b is passed twice
AddThenSubtract ==
    \E m \in Methods :
        LET s == add(x, y, m)
            r == subtract(s.ret, s.y, m)
        IN  Return([fn |-> "add_subtract", method |-> m, value |-> NaN],
                   Outcome(s.x, r.y, r.x_align, r.y_align, r.ret))

Floor ==
    /\ IsSeries(x)
    /\ \E v \in 0..MaxScalar :
        Return([fn |-> "floor", method |-> "omitted", value |-> Num(v)],
               floor(x, Num(v)))

Ceil ==
    /\ IsSeries(x)
    /\ \E v \in 0..MaxScalar :
        Return([fn |-> "ceil", method |-> "omitted", value |-> Num(v)],
               ceil(x, Num(v)))

Next ==
    \/ Add
    \/ Subtract
    \/ Multiply
    \/ Divide
    \/ Floordiv
    \/ AddThenSubtract

Spec == Init /\ [][Next]_vars

\* floor and ceil take one series, whatever the order of its index
InitClamp ==
    /\ \E n \in 0..MaxObs :
          \E idx \in [1..n -> Dates], v \in [1..n -> InputValues] :
              x = MkSeries(idx, v)
    /\ y = None
    /\ pc = "idle"
    /\ call = NoCall
    /\ x_align = None
    /\ y_align = None
    /\ ret = None
    /\ NoCalendars
    /\ NoRequests

NextClamp ==
    \/ Floor
    \/ Ceil

SpecClamp == InitClamp /\ [][NextClamp]_vars

\* filter_ takes one time series: dates strictly increasing
InitFilter ==
    /\ \E n \in 0..MaxObs :
          \E idx \in [1..n -> Dates], v \in [1..n -> InputValues] :
              /\ IsStrictlyIncreasing(idx)
              /\ x = MkSeries(idx, v)
    /\ y = None
    /\ pc = "idle"
    /\ call = NoCall
    /\ x_align = None
    /\ y_align = None
    /\ ret = None
    /\ NoCalendars
    /\ NoRequests

\* the operator argument: None, a member of FilterOperator, or something else
\* (the plain string 'less_than' is not a member)
OperatorArgs == FilterOperator \cup {NoOperator, "less_than"}
ValueArgs == {NoValue} \cup {Num(i) : i \in 0..MaxScalar}

Filter ==
    /\ IsSeries(x)
    /\ \E operator \in OperatorArgs, value \in ValueArgs :
        Return([fn |-> "filter_", operator |-> operator, value |-> value],
               filter_(x, operator, value))

NextFilter == Filter

SpecFilter == InitFilter /\ [][NextFilter]_vars

\* sqrt takes a real number (whole numbers and quarters, negative ones too)
\* or a time series of such whole numbers and NaN
SqrtNumbers ==
    {Frac(n, d) : n \in (-MaxScalar)..(4 * MaxScalar * MaxScalar), d \in {1, 4}}
SqrtValues == {NaN} \cup {Num(i) : i \in (-1)..(MaxScalar * MaxScalar)}

InitSqrt ==
    /\ \/ \E v \in SqrtNumbers : x = Scalar(v)
       \/ \E n \in 0..MaxObs :
             \E idx \in [1..n -> Dates], v \in [1..n -> SqrtValues] :
                 /\ IsStrictlyIncreasing(idx)
                 /\ x = MkSeries(idx, v)
    /\ y = None
    /\ pc = "idle"
    /\ call = NoCall
    /\ x_align = None
    /\ y_align = None
    /\ ret = None
    /\ NoCalendars
    /\ NoRequests

Sqrt == Return([fn |-> "sqrt", method |-> "omitted", value |-> NaN], sqrt(x))

NextSqrt == Sqrt

SpecSqrt == InitSqrt /\ [][NextSqrt]_vars

\* normalize_window takes a series, of which only the length matters, a
\* window (None, an int >= 0, or a Window with a size, a ramp or both) and,
\* when the window is None, possibly a default size > 0
InitWindow ==
    /\ \E n \in 0..MaxObs :
          \E idx \in [1..n -> Dates] :
              /\ IsStrictlyIncreasing(idx)
              /\ x = MkSeries(idx, [i \in 1..n |-> Num(1)])
    /\ y = None
    /\ pc = "idle"
    /\ call = NoCall
    /\ x_align = None
    /\ y_align = None
    /\ ret = None
    /\ NoCalendars
    /\ NoRequests

WindowInts == 0..(MaxObs + 1)
OptionalInts == {Unset} \cup {Given(i) : i \in WindowInts}
WindowArgs ==
    {NoWindow} \cup {IntWindow(n) : n \in WindowInts}
        \cup ({Window(w, r) : w \in OptionalInts, r \in OptionalInts}
                  \ {Window(Unset, Unset)})
DefaultArgs == {Unset} \cup {Given(i) : i \in 1..(MaxObs + 1)}

NormalizeWindow ==
    \E window \in WindowArgs, default_window \in DefaultArgs :
        /\ default_window.set => window = NoWindow
        /\ Return([fn |-> "normalize_window", window |-> window,
                default_window |-> default_window],
               normalize_window(x, window, default_window))

NextWindow == NormalizeWindow

SpecWindow == InitWindow /\ [][NextWindow]_vars

\* apply_ramp takes a time series and a Window whose size and ramp are ints,
\* negative ones too
InitRamp ==
    /\ \E n \in 0..MaxObs :
          \E idx \in [1..n -> Dates], v \in [1..n -> InputValues] :
              /\ IsStrictlyIncreasing(idx)
              /\ x = MkSeries(idx, v)
    /\ y = None
    /\ pc = "idle"
    /\ call = NoCall
    /\ x_align = None
    /\ y_align = None
    /\ ret = None
    /\ NoCalendars
    /\ NoRequests

RampInts == (-1)..(MaxObs + 1)

ApplyRamp ==
    \E w \in RampInts, r \in RampInts :
        Return([fn |-> "apply_ramp", window |-> Window(Given(w), Given(r))],
               apply_ramp(x, Window(Given(w), Given(r))))

NextRamp == ApplyRamp

SpecRamp == InitRamp /\ [][NextRamp]_vars

\* the calendar cache as the class statement leaves it
InitCalendar ==
    /\ x = None
    /\ y = None
    /\ pc = "idle"
    /\ call = NoCall
    /\ x_align = None
    /\ y_align = None
    /\ ret = None
    /\ NoCalendars
    /\ NoRequests

CalendarNames == {"NYSE", "LSE"}
CalendarTuples == UNION {[1..n -> CalendarNames] : n \in 0..MaxTuple}
CalendarArgs == {Str(s) : s \in CalendarNames} \cup {Tuple(t) : t \in CalendarTuples}

\* one more call of get or reset: the class attribute and the objects are
\* updated, the call and what it returned are noted
Returned(c, o) ==
    /\ Len(history) < MaxCalls
    /\ pc' = "done"
    /\ call' = c
    /\ ret' = o.ret
    /\ CALENDAR_CACHE' = o.cache
    /\ instances' = o.instances
    /\ history' = Append(history, [call |-> c, ret |-> o.ret])
    /\ UNCHANGED <<x, y, x_align, y_align, requests>>

Get ==
    \E calendars \in CalendarArgs :
        Returned([fn |-> "get", calendars |-> calendars],
                 get(CALENDAR_CACHE, instances, calendars))

Reset ==
    Returned([fn |-> "reset", calendars |-> Tuple(<<>>)],
             reset(CALENDAR_CACHE, instances))

NextCalendar ==
    \/ Get
    \/ Reset

SpecCalendar == InitCalendar /\ [][NextCalendar]_vars

\* nothing sent yet
InitBacktest ==
    /\ x = None
    /\ y = None
    /\ pc = "idle"
    /\ call = NoCall
    /\ x_align = None
    /\ y_align = None
    /\ ret = None
    /\ NoCalendars
    /\ NoRequests

\* limit is None, its default 100 or another number; the other arguments
\* are None, their default, or a value
LimitArgs == {PyNone, Text("100"), Text("5")}
TextArgs == {PyNone, Text("a")}
DateArgs == {PyNone} \cup {Date(d) : d \in Dates}
BacktestsArgs ==
    [limit : LimitArgs, backtest_id : TextArgs, owner_id : TextArgs,
     name : TextArgs, mq_symbol : TextArgs]
ComparisonArgs ==
    [limit : LimitArgs, start_date : DateArgs, end_date : DateArgs,
     backtest_id : TextArgs, comparison_id : TextArgs, owner_id : TextArgs,
     name : TextArgs, mq_symbol : TextArgs]

Sent(c, o) ==
    /\ pc = "idle"
    /\ pc' = "done"
    /\ call' = c
    /\ ret' = o.ret
    /\ requests' = requests \o o.requests
    /\ UNCHANGED <<x, y, x_align, y_align, CALENDAR_CACHE, instances, history>>

GetBacktests ==
    \E args \in BacktestsArgs :
        Sent([fn |-> "get_backtests", args |-> args], get_backtests(args))

GetComparisonResults ==
    \E args \in ComparisonArgs :
        Sent([fn |-> "get_comparison_results", args |-> args],
             get_comparison_results(args))

NextBacktest ==
    \/ GetBacktests
    \/ GetComparisonResults

SpecBacktest == InitBacktest /\ [][NextBacktest]_vars

(***************************************************************************)
(* Vocabulary of the properties.                                           *)
(***************************************************************************)
BinOps == {"add", "subtract", "multiply", "divide", "floordiv"}
Called(fns) == pc = "done" /\ call.fn \in fns
BothSeries == IsSeries(x) /\ IsSeries(y)
OneScalar == (IsReal(x) /\ IsSeries(y)) \/ (IsSeries(x) /\ IsReal(y))
BothScalars == IsReal(x) /\ IsReal(y)
StepCall == call.method \in {"omitted", "STEP"}
OnlyIn(a, b) == DatesOf(a) \ DatesOf(b)

MaxOf(S) == CHOOSE m \in S : \A e \in S : e <= m

\* the value the STEP policy assigns to series s at date d
StepValue(s, d) ==
    IF d \in DatesOf(s) THEN At(s, d)
    ELSE LET E == {e \in DatesOf(s) : e < d}
         IN  IF E = {} THEN NaN ELSE At(s, MaxOf(E))

\* the value a constant-fill policy assigns to series s at date d
FillValue(s, d, fill) == IF d \in DatesOf(s) THEN At(s, d) ELSE fill

\* idx lists exactly the dates of D, each once, in increasing order
IsSortedIndexOf(idx, D) == IsStrictlyIncreasing(idx) /\ DateSet(idx) = D

ElemOp(fn, a, b) ==
    CASE fn = "add" -> VAdd(a, b)
      [] fn = "subtract" -> VSub(a, b)
      [] fn = "multiply" -> VMul(a, b)
      [] fn = "divide" -> VDiv(a, b)
      [] fn = "floordiv" -> VFloorDiv(a, b)

C2_IntersectIndexAndValues ==
    (Called(BinOps) /\ BothSeries /\ call.method = "INTERSECT") =>
        /\ x_align.index = y_align.index
        /\ IsSortedIndexOf(x_align.index, DatesOf(x) \cap DatesOf(y))
        /\ \A d \in DateSet(x_align.index) :
              At(x_align, d) = At(x, d) /\ At(y_align, d) = At(y, d)

C2_Witness ==
    /\ Called(BinOps) /\ call.method = "INTERSECT"
    /\ x = MkSeries(<<1, 2>>, <<Num(1), Num(0)>>)
    /\ y = MkSeries(<<2>>, <<Num(1)>>)
    /\ x_align = MkSeries(<<2>>, <<Num(0)>>)
    /\ y_align = y

FillOf(m) == IF m = "ZERO" THEN Num(0) ELSE NaN

C4_NanZeroFill ==
    (Called(BinOps) /\ BothSeries /\ call.method \in {"NAN", "ZERO"}) =>
        /\ x_align.index = y_align.index
        /\ IsSortedIndexOf(x_align.index, DatesOf(x) \cup DatesOf(y))
        /\ \A d \in DateSet(x_align.index) :
              /\ At(x_align, d) = FillValue(x, d, FillOf(call.method))
              /\ At(y_align, d) = FillValue(y, d, FillOf(call.method))
        /\ call.fn = "add" =>
              /\ ret.index = x_align.index
              /\ \A d \in OnlyIn(x, y) :
                    At(ret, d) = IF call.method = "NAN" THEN NaN ELSE At(x, d)
              /\ \A d \in OnlyIn(y, x) :
                    At(ret, d) = IF call.method = "NAN" THEN NaN ELSE At(y, d)

C4_Witness ==
    /\ Called({"add"}) /\ call.method = "ZERO"
    /\ x = MkSeries(<<1, 3>>, <<Num(1), NaN>>)
    /\ y = MkSeries(<<2>>, <<Num(1)>>)
    /\ x_align = MkSeries(<<1, 2, 3>>, <<Num(1), Num(0), NaN>>)
    /\ y_align = MkSeries(<<1, 2, 3>>, <<Num(0), Num(1), Num(0)>>)
    /\ ret = MkSeries(<<1, 2, 3>>, <<Num(1), Num(1), NaN>>)

(***************************************************************************)
(* C5 as stated: subtract(add(a, b, INTERSECT), b, INTERSECT) is indexed   *)
(* by the intersection of the dates and carries a's value at each of them. *)
(***************************************************************************)
C5_RoundTripAsClaimed ==
    (Called({"add_subtract"}) /\ BothSeries /\ call.method = "INTERSECT") =>
        /\ IsSortedIndexOf(ret.index, DatesOf(x) \cap DatesOf(y))
        /\ \A d \in DateSet(ret.index) : At(ret, d) = At(x, d)

(***************************************************************************)
(* C5 amended: the round trip is indexed by the intersection of the dates  *)
(* and carries a's value at each date where b's value is a number, and the *)
(* missing-marker at each date where b's value is the missing-marker.      *)
(***************************************************************************)
C5_RoundTripWhereBIsNumber ==
    (Called({"add_subtract"}) /\ BothSeries /\ call.method = "INTERSECT") =>
        /\ IsSortedIndexOf(ret.index, DatesOf(x) \cap DatesOf(y))
        /\ \A d \in DateSet(ret.index) :
              At(ret, d) = IF IsNaN(At(y, d)) THEN NaN ELSE At(x, d)

C5_Witness ==
    /\ Called({"add_subtract"}) /\ call.method = "INTERSECT"
    /\ x = MkSeries(<<1, 2>>, <<NaN, Num(0)>>)
    /\ y = MkSeries(<<2>>, <<Num(1)>>)
    /\ y_align = y
    /\ ret = MkSeries(<<2>>, <<Num(0)>>)

C7_ScalarArithmetic ==
    (Called(BinOps) /\ BothScalars) =>
        LET a == x.values[1].n
            b == y.values[1].n
            v == ret.values[1]
        IN  /\ x_align = None /\ y_align = None
            /\ call.fn = "add" => ret = Scalar(Num(a + b))
            /\ call.fn = "subtract" => ret = Scalar(Num(a - b))
            /\ call.fn = "multiply" => ret = Scalar(Num(a * b))
            /\ (call.fn \in {"divide", "floordiv"} /\ b = 0) =>
                  ret = Raise("ZeroDivisionError")
            /\ (call.fn = "divide" /\ b # 0) =>
                  /\ IsReal(ret) /\ IsNum(v) /\ v.d > 0
                  /\ v.n * b = a * v.d
            /\ (call.fn = "floordiv" /\ b # 0) =>
                  /\ IsReal(ret) /\ IsNum(v) /\ v.d = 1
                  /\ IF b > 0 THEN v.n * b <= a /\ a < (v.n + 1) * b
                              ELSE v.n * b >= a /\ a > (v.n + 1) * b

C7_Witness ==
    /\ Called({"floordiv"}) /\ call.method = "ZERO"
    /\ x = Scalar(Num(1)) /\ y = Scalar(Num(-2))
    /\ ret = Scalar(Num(-1))

(***************************************************************************)
(* C8: divide and floordiv never raise on a zero divisor, for scalar and   *)
(* series operands alike: every result value whose divisor is zero is an   *)
(* infinity or NaN.                                                        *)
(***************************************************************************)
IsZero(v) == IsNum(v) /\ v.n = 0

C8_ZeroDivisorNeverRaises ==
    Called({"divide", "floordiv"}) =>
        /\ ret.kind # "error"
        /\ (IsReal(y) /\ IsZero(y.values[1])) =>
              \A i \in 1..Len(ret.values) : ret.values[i].k \in {"inf", "nan"}
        /\ IsSeries(y) =>
              \A i \in 1..Len(y_align.values) :
                  IsZero(y_align.values[i]) => ret.values[i].k \in {"inf", "nan"}

C10_FloorCeilClamp ==
    (Called({"floor", "ceil"}) /\ IsStrictlyIncreasing(x.index)) =>
        LET v == call.value.n
        IN  /\ IsSeries(ret)
            /\ ret.index = x.index
            /\ Len(ret.values) = Len(x.values)
            /\ \A i \in 1..Len(x.values) :
                  LET xi == x.values[i]
                      clamped == /\ IsNum(xi)
                                 /\ IF call.fn = "floor" THEN xi.n < v ELSE xi.n > v
                  IN  ret.values[i] = IF clamped THEN Num(v) ELSE xi

C10_Witness ==
    /\ Called({"ceil"}) /\ call.value = Num(0)
    /\ x = MkSeries(<<1, 2, 3>>, <<Num(1), NaN, Num(0)>>)
    /\ ret = MkSeries(<<1, 2, 3>>, <<Num(0), NaN, Num(0)>>)

(***************************************************************************)
(* C11 as stated: floor and ceil fail, returning no series, exactly when   *)
(* the index is not strictly increasing, two equal consecutive dates       *)
(* included.                                                               *)
(***************************************************************************)
C11_FailsUnlessStrictlyIncreasing ==
    Called({"floor", "ceil"}) =>
        (ret.kind = "error" <=> ~IsStrictlyIncreasing(x.index))

(***************************************************************************)
(* C11 amended: floor and ceil fail with an AssertionError, returning no   *)
(* series, exactly when some date of the index is smaller than the date    *)
(* before it; an index whose consecutive dates are equal or increasing,    *)
(* repeated dates included, is accepted and a series is returned.          *)
(***************************************************************************)
HasDescent(idx) == \E i \in 1..(Len(idx) - 1) : idx[i + 1] < idx[i]

C11_FailsOnDescentOnly ==
    Called({"floor", "ceil"}) =>
        /\ HasDescent(x.index) => ret = Raise("AssertionError")
        /\ ~HasDescent(x.index) => IsSeries(ret) /\ ret.index = x.index

\* floor on an index that goes back in time fails
C11_WitnessDescent ==
    /\ Called({"floor"})
    /\ x.index = <<1, 3, 2>>
    /\ ret = Raise("AssertionError")

\* ceil on an index with a repeated date succeeds
C11_Witness ==
    /\ Called({"ceil"})
    /\ x.index = <<1, 2, 2>>
    /\ IsSeries(ret)

(***************************************************************************)
(* C12: filter_(x, operator, value) with one of the six operators and a    *)
(* value returns the series of exactly those entries of x whose value      *)
(* does not satisfy the comparison with value (==, !=, <, >, <=, >=);      *)
(* the entries kept have their date and value unchanged and stay in the    *)
(* order of x.                                                             *)
(***************************************************************************)
Satisfies(v, operator, w) ==
    IF IsNaN(v) THEN operator = "N_EQUALS"
    ELSE LET c == Sign(v.n * w.d - w.n * v.d)
         IN  \/ operator = "EQUALS" /\ c = 0
             \/ operator = "N_EQUALS" /\ c # 0
             \/ operator = "LESS" /\ c = -1
             \/ operator = "GREATER" /\ c = 1
             \/ operator = "L_EQUALS" /\ c # 1
             \/ operator = "G_EQUALS" /\ c # -1

KeepsExactly(kept) ==
    /\ IsSeries(ret)
    /\ DatesOf(ret) = kept
    /\ IsStrictlyIncreasing(ret.index)
    /\ \A d \in kept : At(ret, d) = At(x, d)

C12_FilterRemovesMatches ==
    (Called({"filter_"}) /\ call.operator \in FilterOperator /\ call.value # NoValue) =>
        KeepsExactly({d \in DatesOf(x) : ~Satisfies(At(x, d), call.operator, call.value)})

\* of the values 1, 0, 1 only the 0 is less than 1 and goes
C12_Witness ==
    /\ Called({"filter_"})
    /\ call.operator = "LESS"
    /\ call.value = Num(1)
    /\ x = MkSeries(<<1, 2, 3>>, <<Num(1), Num(0), Num(1)>>)
    /\ ret = MkSeries(<<1, 3>>, <<Num(1), Num(1)>>)

(***************************************************************************)
(* C13: filter_(x) with neither operator nor value returns the series of   *)
(* exactly the entries of x whose value is not the missing-marker, dates,  *)
(* values and order unchanged.                                             *)
(***************************************************************************)
C13_FilterDefaultDropsMissing ==
    (Called({"filter_"}) /\ call.operator = NoOperator /\ call.value = NoValue) =>
        KeepsExactly({d \in DatesOf(x) : At(x, d) # NaN})

C13_Witness ==
    /\ Called({"filter_"})
    /\ call.operator = NoOperator
    /\ call.value = NoValue
    /\ x = MkSeries(<<1, 2, 3>>, <<NaN, Num(0), NaN>>)
    /\ ret = MkSeries(<<2>>, <<Num(0)>>)

(***************************************************************************)
(* C14: a call of filter_ with an operator but no value, with a value but  *)
(* no operator, or with a value and an operator that is not a member of    *)
(* FilterOperator raises MqValueError: no series is returned and x is as   *)
(* it was before the call.                                                 *)
(***************************************************************************)
Mismatched(c) ==
    \/ c.operator # NoOperator /\ c.value = NoValue
    \/ c.operator = NoOperator /\ c.value # NoValue
    \/ c.operator \notin FilterOperator /\ c.value # NoValue

C14_FilterRejectsMismatch ==
    [][(call'.fn = "filter_" /\ Mismatched(call')) =>
          (ret' = Raise("MqValueError") /\ x' = x)]_vars

C14_Witness ==
    /\ Called({"filter_"})
    /\ call.operator = NoOperator
    /\ call.value = Num(1)
    /\ Obs(x) = 2
    /\ ret = Raise("MqValueError")

C14_WitnessNoValue ==
    /\ Called({"filter_"})
    /\ call.operator = "EQUALS"
    /\ call.value = NoValue
    /\ ret = Raise("MqValueError")

C14_WitnessUnexpectedOperator ==
    /\ Called({"filter_"})
    /\ call.operator = "less_than"
    /\ call.value = Num(0)
    /\ ret = Raise("MqValueError")

(***************************************************************************)
(* C15: sqrt of a scalar x >= 0 returns an int r with r * r = x exactly    *)
(* when x has an integral square root, and otherwise a float that is not   *)
(* an integer and whose square is x; sqrt of a series returns a series     *)
(* over the same index whose value at every non-negative entry is the      *)
(* square root of that entry.                                              *)
(***************************************************************************)
HasIntegralRoot(v) == \E r \in 0..v.n : r * r * v.d = v.n
Square(w) == IF w.k = "root" THEN Frac(w.n, w.d) ELSE VMul(w, w)
IsRootOf(w, v) == (w.k = "root" \/ (IsNum(w) /\ w.n >= 0)) /\ Square(w) = v
IsWhole(w) == IsNum(w) /\ w.d = 1

C15_SqrtIntegerWhenIntegral ==
    Called({"sqrt"}) =>
        /\ (IsReal(x) /\ x.values[1].n >= 0) =>
              /\ ret.kind \in {"int", "float"}
              /\ ret.kind = "int" <=> HasIntegralRoot(x.values[1])
              /\ ret.kind = "int" => IsWhole(ret.values[1])
              /\ ret.kind = "float" => ~IsWhole(ret.values[1])
              /\ IsRootOf(ret.values[1], x.values[1])
        /\ IsSeries(x) =>
              /\ IsSeries(ret)
              /\ ret.index = x.index
              /\ \A i \in 1..Len(x.index) :
                    (IsNum(x.values[i]) /\ x.values[i].n >= 0) =>
                        IsRootOf(ret.values[i], x.values[i])

\* sqrt(4) = 2, an int
C15_Witness ==
    /\ Called({"sqrt"})
    /\ x = Scalar(Num(4))
    /\ ret = PyInt(2)

\* sqrt(9/4) is the float 3/2
C15_WitnessFloat ==
    /\ Called({"sqrt"})
    /\ x = Scalar(Frac(9, 4))
    /\ ret = PyFloat(Frac(3, 2))

C15_WitnessSeries ==
    /\ Called({"sqrt"})
    /\ x = MkSeries(<<1, 3>>, <<Num(4), Num(2)>>)
    /\ ret = MkSeries(<<1, 3>>, <<Num(2), [k |-> "root", n |-> 2, d |-> 1]>>)

(***************************************************************************)
(* C16: normalize_window(series, None, default_size) on a non-empty series *)
(* returns the Window whose ramp is 0 and whose size is default_size when  *)
(* one is given and the length of the series otherwise.                    *)
(***************************************************************************)
Normalized(kind) == Called({"normalize_window"}) /\ call.window.kind = kind

C16_WitnessNoDefault ==
    /\ Normalized("none")
    /\ Obs(x) = 3
    /\ call.default_window = Unset
    /\ ret = Window(Given(3), Given(0))

(***************************************************************************)
(* C17: normalize_window(series, n) with an int n, 0 < n <= length of the  *)
(* series, returns Window(n, n).                                           *)
(***************************************************************************)
C17_IntWindow ==
    (Normalized("int") /\ call.window.w.v > 0 /\ call.window.w.v <= Obs(x)) =>
        ret = Window(call.window.w, call.window.w)

C17_Witness ==
    /\ Normalized("int")
    /\ Obs(x) = 3
    /\ call.window = IntWindow(2)
    /\ ret = Window(Given(2), Given(2))

(***************************************************************************)
(* C18 as stated: normalize_window given a Window with a size and no ramp  *)
(* returns the Window of that size with ramp 0.                            *)
(***************************************************************************)
SizeOnly == Normalized("window") /\ call.window.w.set /\ ~call.window.r.set

C18_SizeOnlyRampZero ==
    (SizeOnly /\ call.window.w.v > 0) => ret = Window(call.window.w, Given(0))

(***************************************************************************)
(* C18 amended: normalize_window given a Window with a size s > 0 and no   *)
(* ramp takes the ramp to be s: it returns Window(s, s) when s does not    *)
(* exceed the length of the series and fails otherwise.  Ramp 0 is what a  *)
(* Window that states it, Window(s, 0), is normalised to.                  *)
(***************************************************************************)
C18_SizeOnlyRampIsSize ==
    /\ (SizeOnly /\ call.window.w.v > 0) =>
          IF call.window.w.v <= Obs(x)
          THEN ret = Window(call.window.w, call.window.w)
          ELSE ret = Raise("ValueError")
    /\ (Normalized("window") /\ call.window.w.set /\ call.window.w.v > 0
            /\ call.window.r = Given(0)) =>
          ret = Window(call.window.w, Given(0))

C18_Witness ==
    /\ Normalized("window")
    /\ Obs(x) = 3
    /\ call.window = Window(Given(2), Unset)
    /\ ret = Window(Given(2), Given(2))

C18_WitnessRampZero ==
    /\ Normalized("window")
    /\ Obs(x) = 3
    /\ call.window = Window(Given(2), Given(0))
    /\ ret = Window(Given(2), Given(0))

(***************************************************************************)
(* C19 as stated: normalize_window given a Window with a ramp r and no     *)
(* size, r not exceeding the length of the series, returns the Window      *)
(* whose size is the length of the series and whose ramp is r.             *)
(***************************************************************************)
RampOnly == Normalized("window") /\ ~call.window.w.set /\ call.window.r.set

C19_WitnessEmpty ==
    /\ Normalized("window")
    /\ Obs(x) = 0
    /\ call.window = Window(Unset, Given(0))
    /\ ret = Raise("ValueError")

(***************************************************************************)
(* C20: normalize_window fails, returning no Window, whenever the size it  *)
(* arrives at is 0 or the ramp it arrives at exceeds the length of the     *)
(* series; every Window it returns has size > 0 and ramp <= length.        *)
(***************************************************************************)
ResultingSize ==
    CASE call.window.kind = "none" ->
            IF call.default_window.set THEN call.default_window.v ELSE Obs(x)
      [] call.window.kind = "int" -> call.window.w.v
      [] call.window.kind = "window" ->
            IF call.window.w.set THEN call.window.w.v ELSE Obs(x)

ResultingRamp ==
    CASE call.window.kind = "none" -> 0
      [] call.window.kind = "int" -> call.window.w.v
      [] call.window.kind = "window" ->
            IF call.window.r.set THEN call.window.r.v ELSE ResultingSize

C20_WitnessIntZero ==
    /\ Normalized("int")
    /\ Obs(x) = 3
    /\ call.window = IntWindow(0)
    /\ ret = Raise("ValueError")

C20_WitnessZeroZero ==
    /\ Normalized("window")
    /\ Obs(x) = 3
    /\ call.window = Window(Given(0), Given(0))
    /\ ret = Raise("ValueError")

(***************************************************************************)
(* C21: apply_ramp(series, Window(size, ramp)) with 0 < size <= length and *)
(* 0 <= ramp <= length returns the series without its first ramp entries:  *)
(* length - ramp entries, which are the entries ramp + 1, ramp + 2, ... of *)
(* the series with their dates and values, in that order.                  *)
(***************************************************************************)
Ramped == Called({"apply_ramp"})
RampSize == call.window.w.v
RampRamp == call.window.r.v
ValidRamp == 0 <= RampRamp /\ RampRamp <= Obs(x)

C21_RampDropsLeadingEntries ==
    (Ramped /\ 0 < RampSize /\ RampSize <= Obs(x) /\ ValidRamp) =>
        /\ IsSeries(ret)
        /\ Obs(ret) = Obs(x) - RampRamp
        /\ Len(ret.values) = Obs(ret)
        /\ \A i \in 1..Obs(ret) :
              /\ ret.index[i] = x.index[i + RampRamp]
              /\ ret.values[i] = x.values[i + RampRamp]

C21_Witness ==
    /\ Ramped
    /\ call.window = Window(Given(2), Given(1))
    /\ x = MkSeries(<<1, 2, 3>>, <<Num(0), NaN, Num(1)>>)
    /\ ret = MkSeries(<<2, 3>>, <<NaN, Num(1)>>)

(***************************************************************************)
(* C22: apply_ramp returns the empty series, and raises nothing, whenever  *)
(* the size of the window exceeds the length of the series and the ramp    *)
(* is valid (0 <= ramp <= length).                                         *)
(***************************************************************************)
C22_LongWindowGivesEmpty ==
    (Ramped /\ RampSize > Obs(x) /\ ValidRamp) => ret = MkSeries(<<>>, <<>>)

C22_Witness ==
    /\ Ramped
    /\ call.window = Window(Given(3), Given(1))
    /\ Obs(x) = 2
    /\ ret = MkSeries(<<>>, <<>>)

C23_WitnessNegativeSize ==
    /\ Ramped
    /\ Obs(x) = 2
    /\ call.window = Window(Given(-1), Given(0))
    /\ ret = Raise("ValueError")

C23_WitnessNegativeRamp ==
    /\ Ramped
    /\ Obs(x) = 2
    /\ call.window = Window(Given(2), Given(-1))
    /\ ret = Raise("ValueError")

(***************************************************************************)
(* C24: whatever calls of get and reset have been made, the calendar cache *)
(* is a mapping, and a call get(c) returns a GsCalendar whose calendars()  *)
(* is c as a tuple, after a reset too.                                     *)
(***************************************************************************)
C24_CacheStaysAMapping ==
    /\ CALENDAR_CACHE.kind = "dict"
    /\ Called({"get"}) =>
          /\ ret.kind = "GsCalendar"
          /\ calendars_of(instances, ret) = AsTuple(call.calendars)

(***************************************************************************)
(* C25: as long as no reset has been called, every get returns a           *)
(* GsCalendar, two gets return the same object exactly when their          *)
(* arguments denote the same tuple (a string s denoting (s,)), and no get  *)
(* removes or replaces an entry of the cache.                              *)
(***************************************************************************)
IsGet(i) == history[i].call.fn = "get"
NoResetUpTo(j) == \A k \in 1..j : history[k].call.fn # "reset"

Memoized ==
    \A j \in 1..Len(history) :
        NoResetUpTo(j) =>
            /\ history[j].ret.kind = "GsCalendar"
            /\ \A i \in 1..j :
                  (AsTuple(history[i].call.calendars) = AsTuple(history[j].call.calendars))
                      <=> (history[i].ret = history[j].ret)

C25_GetIsMemoized ==
    [][/\ Memoized'
       /\ call'.fn = "get" => CALENDAR_CACHE.items \subseteq CALENDAR_CACHE'.items]_vars

\* get('NYSE') and get(('NYSE',)) gave the same object, get(('LSE',)) another
C25_Witness ==
    /\ Len(history) = 3
    /\ history[1] = [call |-> [fn |-> "get", calendars |-> Str("NYSE")], ret |-> Ref(1)]
    /\ history[2] = [call |-> [fn |-> "get", calendars |-> Tuple(<<"NYSE">>)],
                     ret |-> Ref(1)]
    /\ history[3] = [call |-> [fn |-> "get", calendars |-> Tuple(<<"LSE">>)],
                     ret |-> Ref(3)]
    /\ CALENDAR_CACHE = Dict({[key |-> <<"NYSE">>, value |-> 1],
                              [key |-> <<"LSE">>, value |-> 3]})

(***************************************************************************)
(* C26: get_backtests and get_comparison_results never fail, whichever of  *)
(* their arguments are None, and send one GET whose query names exactly    *)
(* the parameters that are not None; so with start_date and end_date None  *)
(* the query of get_comparison_results has no startDate and no endDate.    *)
(***************************************************************************)
QueryKey ==
    [limit |-> "limit", backtest_id |-> "id", owner_id |-> "ownerId",
     name |-> "name", mq_symbol |-> "mqSymbol", comparison_id |-> "comparisonIds",
     start_date |-> "startDate", end_date |-> "endDate"]

NotNoneKeys(args) == {QueryKey[p] : p \in {q \in DOMAIN args : args[q].set}}

C26_QueryOfNotNoneParameters ==
    Called({"get_backtests", "get_comparison_results"}) =>
        /\ ret.kind # "error"
        /\ Len(requests) = 1
        /\ requests[1].method = "GET"
        /\ {requests[1].query[i].k : i \in 1..Len(requests[1].query)}
              = NotNoneKeys(call.args)

====
